---- MODULE Spec2Model ----
(***************************************************************************)
(* Model of the generator of ha-mqtt-discovery-rs:                         *)
(*   - entity.ts   generateMqttEntityModel / appendRustType                *)
(*                 (src/generator/src/index.ts, lines 91-242)              *)
(*   - index.ts    the "abbreviation" template helper                      *)
(*   - abbreviations.ts  loadAbbreviations (src/unnamed/part_001)          *)
(*   - units.ts    extractUnitsEnums (src/generator/src/units.ts)          *)
(*   - index.ts    the run, from loadAbbreviations to the write of mod.rs  *)
(*                 (src/generator/src/index.ts, lines 1-90)                *)
(*                                                                         *)
(* Strings the code builds by concatenation are sequences of parts, so     *)
(* that `${a}${b}` is <<a, b>>.  The JavaScript value undefined of a       *)
(* string property is the empty sequence (the code assigns no empty        *)
(* string); undefined of a flag that the code only ever sets to true is    *)
(* FALSE (the template tests these flags for truthiness only).             *)
(***************************************************************************)
EXTENDS Naturals, Sequences, FiniteSets, TLC

VARIABLES
    input,          \* generator/input/: entity name -> [doc, yml]
    IGNORED_ATTRS,  \* the module-level array of entity.ts
    models,         \* entity name -> the models generateMqttEntityModel returned, in call order
    abbreviationsFile, \* generator/input/abbreviations.py, as lines
    ABBREVIATIONS,  \* the module-level list of index.ts, [loaded, items]
    lookups,        \* the calls of the abbreviation helper so far: <<name, result>>
    unitsFile,      \* generator/input/units.py, as lines and NUL separators
    unitsModel,     \* what extractUnitsEnums returned, [extracted, groups]
    inputDir,       \* generator/input/ as readdirSync lists it: entityName, doc, table
    deviceClassesDir, \* generator/input/device_classes/ as readdirSync lists it
    pc,             \* the statement of index.ts the run is at
    entitiesModels, \* index.ts line 29, as far as the map has got
    enumsModels,    \* index.ts line 52
    written,        \* the files written under src/generated/, in order
    console         \* the entities whose raw table text console.error printed

vars == <<input, IGNORED_ATTRS, models, abbreviationsFile, ABBREVIATIONS, lookups,
          unitsFile, unitsModel, inputDir, deviceClassesDir, pc, entitiesModels,
          enumsModels, written, console>>

entityVars == <<input, IGNORED_ATTRS, models>>
abbrVars == <<abbreviationsFile, ABBREVIATIONS, lookups>>
unitsVars == <<unitsFile, unitsModel>>
dirVars == <<inputDir, deviceClassesDir>>
runVars == <<entitiesModels, enumsModels, written, console>>

----------------------------------------------------------------------------
(* Bounds *)

\* attributes per attribute table
MaxAttrs == 2
\* calls of generateMqttEntityModel per entity
MaxCompiles == 2

----------------------------------------------------------------------------
(* Values *)

Undefined == <<>>

\* A declared type: a YAML scalar (its text, in chunks) or a YAML sequence
\* of scalars (its elements).
Scalar(s) == [scalar |-> TRUE, parts |-> <<s>>]
Alternatives(seq) == [scalar |-> FALSE, parts |-> seq]

NoKeys == [defined |-> FALSE, names |-> <<>>]
Keys(seq) == [defined |-> TRUE, names |-> seq]

RECURSIVE SeqToSet(_)
SeqToSet(s) == IF s = <<>> THEN {} ELSE {Head(s)} \cup SeqToSet(Tail(s))

\* keys that are array indices ("0") come first in the property order
IndexKeys == {"0"}

\* Array.prototype.includes
ArrayIncludes(arr, x) == \E i \in 1..Len(arr) : arr[i] = x

\* the array without "platform"
IgnoredAttrsLiteral_NoPlatform ==
    << "availability", "availability_mode", "availability_template",
       "availability_topic", "payload_available", "payload_not_available",
       "expire_after", "device", "entity_category" >>

\* the array of entity.ts as written
IgnoredAttrsLiteral ==
    << "availability", "availability_mode", "availability_template",
       "availability_topic", "payload_available", "payload_not_available",
       "platform", "expire_after", "device", "entity_category" >>

\* strings.ts is not part of the sources at hand: the two facts used are
\* that the result is a function of the name and differs between names.
toPascalCase(name) ==
    CASE name = "valve" -> "Valve"
      [] name = "sensor" -> "Sensor"
      [] name = "binary_sensor" -> "BinarySensor"
      [] OTHER -> name

----------------------------------------------------------------------------
(* entity.ts: appendRustType *)

\* no name escaped
RustSafeName_Plain(name) == <<name>>

\* lines 174-178
RustSafeName(name) == IF name = "type" THEN <<"r#", name>> ELSE <<name>>

\* attrs.type.includes("list"): String.prototype.includes on a scalar (a
\* chunk "list" of the text), Array.prototype.includes on a sequence.
TypeIncludesList(type) == \E i \in 1..Len(type.parts) : type.parts[i] = "list"

\* switch (attrs.type): `case "list"` compares with ===, which no array equals
TypeIs(type, s) == type.scalar /\ type.parts = <<s>>

\* lines 198-200 and 205-207
StringVector(attrs) ==
    [attrs EXCEPT !.rustType = <<"String">>, !.iterable = TRUE, !.useInto = TRUE]

\* lines 180-185
InferString(attrs) == [attrs EXCEPT !.rustType = <<"String">>, !.useInto = TRUE]

\* the float case without its import
InferFloat_NoImport(attrs) == [attrs EXCEPT !.rustType = <<"Decimal">>]

\* lines 186-189
InferFloat(attrs) ==
    [attrs EXCEPT !.rustType = <<"Decimal">>,
                  !.import = <<"pub use rust_decimal::Decimal">>]

\* lines 190-192
InferInteger(attrs) == [attrs EXCEPT !.rustType = <<"i32">>]

\* boolean handled like the string types
InferBoolean_AsString(attrs) ==
    [attrs EXCEPT !.rustType = <<"String">>, !.useInto = TRUE]

\* lines 193-195
InferBoolean(attrs) == [attrs EXCEPT !.rustType = <<"bool">>]

\* the list case without the collection flag
InferList_NotIterable(attrs) ==
    IF ~attrs.keys.defined
    THEN [attrs EXCEPT !.rustType = <<"String">>, !.useInto = TRUE]
    ELSE attrs

\* lines 196-202
InferList(attrs) == IF ~attrs.keys.defined THEN StringVector(attrs) ELSE attrs

\* every other type taken for a list
InferDefault_Always(attrs) == StringVector(attrs)

\* lines 203-208
InferDefault(attrs) ==
    IF TypeIncludesList(attrs.type) THEN StringVector(attrs) ELSE attrs

\* lines 179-209
InferFromDeclaredType(attrs) ==
    LET t == attrs.type
    IN  CASE TypeIs(t, "template") \/ TypeIs(t, "string") \/ TypeIs(t, "icon") ->
                InferString(attrs)
          [] TypeIs(t, "float") -> InferFloat(attrs)
          [] TypeIs(t, "integer") -> InferInteger(attrs)
          [] TypeIs(t, "boolean") -> InferBoolean(attrs)
          [] TypeIs(t, "list") -> InferList(attrs)
          [] OTHER -> InferDefault(attrs)

\* new RegExp("/integrations/(?<name>[^/]*)/#device-class").exec(description)
\* on a description given as chunks: the chunks "/integrations/",
\* "/#device-class" and "/#device_class" are those texts, every other chunk
\* is text without a slash, and no two such chunks are adjacent.  The
\* leftmost match wins; [^/]* also matches the empty name.
MatchAt(desc, i) ==
    /\ i <= Len(desc)
    /\ desc[i] = "/integrations/"
    /\ \/ i + 1 <= Len(desc) /\ desc[i + 1] = "/#device-class"
       \/ /\ i + 2 <= Len(desc)
          /\ desc[i + 1] \notin {"/integrations/", "/#device-class", "/#device_class"}
          /\ desc[i + 2] = "/#device-class"

NameAt(desc, i) == IF desc[i + 1] = "/#device-class" THEN "" ELSE desc[i + 1]

RegExpExec(desc) ==
    LET hits == {i \in 1..Len(desc) : MatchAt(desc, i)}
    IN  IF hits = {} THEN [matched |-> FALSE, name |-> ""]
        ELSE LET first == CHOOSE i \in hits : \A j \in hits : i <= j
             IN  [matched |-> TRUE, name |-> NameAt(desc, first)]

\* an override that keeps the import the declared type has set
EnumOverride_KeepImport(attrs, rustType, path) ==
    [attrs EXCEPT !.rustType = rustType,
                  !.import = IF attrs.import # Undefined THEN attrs.import
                             ELSE <<path>> \o rustType]

\* an override that also drops the conversion wrapper and the collection flag
EnumOverride_Bare(attrs, rustType, path) ==
    [attrs EXCEPT !.rustType = rustType, !.import = <<path>> \o rustType,
                  !.useInto = FALSE, !.iterable = FALSE]

\* the assignments of rustType and import shared by the enum cases
EnumOverride(attrs, rustType, path) ==
    [attrs EXCEPT !.rustType = rustType, !.import = <<path>> \o rustType]

\* the import built without the domain's name
DeviceClassOverride_SharedImport(attrs) ==
    LET m == RegExpExec(attrs.description)
        entityName == IF m.matched THEN m.name ELSE ""
    IN  IF entityName # ""
        THEN [attrs EXCEPT !.rustType = <<toPascalCase(entityName), "DeviceClass">>,
                           !.import = <<"use crate::generated::", "DeviceClass">>]
        ELSE attrs

\* an override that does not need the fragment
DeviceClassOverride_Always(attrs) ==
    LET m == RegExpExec(attrs.description)
        entityName == IF m.matched THEN m.name ELSE ""
    IN  [attrs EXCEPT !.rustType = <<toPascalCase(entityName), "DeviceClass">>,
                      !.import = <<"use crate::generated::",
                                   toPascalCase(entityName), "DeviceClass">>]

\* lines 211-220
DeviceClassOverride(attrs) ==
    LET m == RegExpExec(attrs.description)
        entityName == IF m.matched THEN m.name ELSE ""
    IN  IF entityName # ""
        THEN EnumOverride(attrs, <<toPascalCase(entityName), "DeviceClass">>,
                          "use crate::generated::")
        ELSE attrs

\* the qos case without its import
QosOverride_NoImport(attrs) == [attrs EXCEPT !.rustType = <<"Qos">>]

\* lines 229-232
QosOverride(attrs) == EnumOverride(attrs, <<"Qos">>, "use crate::common::")

\* the state_topic case missing
StateTopicOverride_Keep(attrs) == attrs

\* lines 237-239
StateTopicOverride(attrs) == [attrs EXCEPT !.required = FALSE]

\* lines 210-240
OverrideByName(name, attrs) ==
    CASE name = "device_class" -> DeviceClassOverride(attrs)
      [] name = "unit_of_measurement" ->
            EnumOverride(attrs, <<"Unit">>, "use crate::generated::")
      [] name = "state_class" ->
            EnumOverride(attrs, <<"SensorStateClass">>, "use crate::common::")
      [] name = "qos" -> QosOverride(attrs)
      [] name = "temperature_unit" ->
            EnumOverride(attrs, <<"TemperatureUnit">>, "use crate::common::")
      [] name = "state_topic" -> StateTopicOverride(attrs)
      [] OTHER -> attrs

\* lines 173-241
appendRustType(name, attrs) ==
    OverrideByName(name,
        InferFromDeclaredType([attrs EXCEPT !.rustSafeName = RustSafeName(name)]))

----------------------------------------------------------------------------
(* entity.ts: generateMqttEntityModel *)

\* YAML.parse of an attribute table that is a mapping: one fresh object per
\* entry, in source order, holding what the table declares and none of the
\* properties the generator adds.
YAMLParse(yml) ==
    [i \in 1..Len(yml) |->
        [name |-> yml[i].name,
         attrs |-> [description |-> yml[i].description,
                    required |-> yml[i].required,
                    type |-> yml[i].type,
                    keys |-> yml[i].keys,
                    rustType |-> Undefined,
                    import |-> Undefined,
                    useInto |-> FALSE,
                    iterable |-> FALSE,
                    rustSafeName |-> Undefined,
                    defaultValue |-> Undefined]]]

\* line 151: Object.entries of the parsed mapping lists the keys that are
\* array indices first, then the others in insertion order
DescriptorEntries(descriptor) ==
    LET IsIndex(e) == e.name \in IndexKeys
        IsName(e) == e.name \notin IndexKeys
    IN  SelectSeq(descriptor, IsIndex) \o SelectSeq(descriptor, IsName)

\* no filter
FilterIgnored_None(ignored, descriptor) == descriptor

\* a filter that also drops the attributes declared map
FilterIgnored_AndMaps(ignored, descriptor) ==
    LET Kept(e) == ~ArrayIncludes(ignored, e.name) /\ e.attrs.type # Scalar("map")
    IN  SelectSeq(descriptor, Kept)

\* lines 151-152
FilterIgnored(ignored, descriptor) ==
    LET Kept(e) == ~ArrayIncludes(ignored, e.name)
    IN  SelectSeq(descriptor, Kept)

\* lines 153-159, one iteration
ProcessEntry(entityName, e) ==
    LET a == appendRustType(e.name, e.attrs)
    IN  [name |-> e.name,
         attrs |-> IF e.name = "platform"
                   THEN [a EXCEPT !.defaultValue = <<entityName>>]
                   ELSE a]

\* new Set(iterable): the first occurrence of each value, in order
RECURSIVE NewSet(_)
NewSet(s) ==
    IF s = <<>> THEN <<>>
    ELSE LET init == NewSet(SubSeq(s, 1, Len(s) - 1))
             last == s[Len(s)]
         IN  IF ArrayIncludes(init, last) THEN init ELSE Append(init, last)

\* the imports collected in an array instead of a Set
CollectImports_Array(entries) ==
    LET all == [i \in 1..Len(entries) |-> entries[i].attrs.import]
        Truthy(x) == x # Undefined
    IN  SelectSeq(all, Truthy)

\* line 164
CollectImports(entries) ==
    LET all == [i \in 1..Len(entries) |-> entries[i].attrs.import]
        Truthy(x) == x # Undefined
    IN  NewSet(SelectSeq(all, Truthy))

\* lines 139-171, for a table that parses as a mapping
generateMqttEntityModel(ignored, entityName, docContent, modelContent) ==
    LET kept == FilterIgnored(ignored, DescriptorEntries(YAMLParse(modelContent)))
        entries == [i \in 1..Len(kept) |-> ProcessEntry(entityName, kept[i])]
    IN  [entityName |-> entityName,
         entityDoc |-> docContent,
         imports |-> CollectImports(entries),
         properties |-> entries]

\* a call that records the names it has handled in the module-level array
IgnoredAttrsAfterCall_Memo(ignored, entries) ==
    ignored \o [i \in 1..Len(entries) |-> entries[i].name]

\* a call that consumes the first name of the module-level array
IgnoredAttrsAfterCall_Drain(ignored, entries) ==
    IF ignored = <<>> THEN ignored ELSE Tail(ignored)

\* what a call leaves in the module-level array: the code never writes it
IgnoredAttrsAfterCall(ignored, entries) == ignored

----------------------------------------------------------------------------
(* abbreviations.ts: loadAbbreviations.  The source is a sequence of lines:
   "doc"     a line that starts with three double quotes
   "header"  NAME = {
   "entry"       "short": "full"   followed by a comma or not
   "close"   }
   "blank"   an empty line *)

Line(kind) == [kind |-> kind, short |-> "", full |-> "", comma |-> FALSE]
Entry(short, full, comma) ==
    [kind |-> "entry", short |-> short, full |-> full, comma |-> comma]

\* line 13: /^""".*/g has no m flag, so ^ is the start of the text only
StripDocstrings(lines) ==
    [i \in 1..Len(lines) |->
        IF i = 1 /\ lines[i].kind = "doc" THEN Line("blank") ELSE lines[i]]

\* line 15: /,$\n}/gm, a comma that ends a line whose next line starts with }
StripTrailingCommas(lines) ==
    [i \in 1..Len(lines) |->
        IF /\ lines[i].kind = "entry"
           /\ lines[i].comma
           /\ i < Len(lines)
           /\ lines[i + 1].kind = "close"
        THEN [lines[i] EXCEPT !.comma = FALSE]
        ELSE lines[i]]

\* line 17: split(/^\w*\s*=/gm): the text before the first header, then per
\* header the rest of its line (the opening brace) and what follows it
RECURSIVE SplitSections(_, _)
SplitSections(lines, current) ==
    IF lines = <<>> THEN <<current>>
    ELSE IF Head(lines).kind = "header"
         THEN <<current>> \o SplitSections(Tail(lines), <<Line("open")>>)
         ELSE SplitSections(Tail(lines), Append(current, Head(lines)))

\* line 18: section.trim().length > 0
NotBlank(section) == \E i \in 1..Len(section) : section[i].kind # "blank"

\* the object JSON.parse builds from the members of an object literal: a
\* repeated key keeps its first position and takes the last value
RECURSIVE ObjectOf(_)
ObjectOf(members) ==
    IF members = <<>> THEN <<>>
    ELSE LET init == ObjectOf(SubSeq(members, 1, Len(members) - 1))
             last == members[Len(members)]
             at == {i \in 1..Len(init) : init[i].key = last.key}
         IN  IF at = {} THEN Append(init, last)
             ELSE [i \in 1..Len(init) |-> IF i \in at THEN last ELSE init[i]]

\* line 22: Object.entries
ObjectEntries(obj) ==
    LET IsIndex(m) == m.key \in IndexKeys
        IsName(m) == m.key \notin IndexKeys
    IN  SelectSeq(obj, IsIndex) \o SelectSeq(obj, IsName)

\* line 21: JSON.parse of a section: white space, an object literal whose
\* members are separated by commas with none after the last, white space
JSONParse(section) ==
    LET Token(l) == l.kind # "blank"
        tokens == SelectSeq(section, Token)
        n == Len(tokens)
        wellFormed ==
            /\ n >= 2
            /\ tokens[1].kind = "open"
            /\ tokens[n].kind = "close"
            /\ \A i \in 2..(n - 1) :
                  /\ tokens[i].kind = "entry"
                  /\ tokens[i].comma = (i < n - 1)
    IN  IF wellFormed
        THEN [ok |-> TRUE,
              value |-> ObjectOf([i \in 1..(n - 2) |->
                            [key |-> tokens[i + 1].short,
                             value |-> tokens[i + 1].full]])]
        ELSE [ok |-> FALSE, value |-> <<>>]

RECURSIVE Flatten(_)
Flatten(seqs) == IF seqs = <<>> THEN <<>> ELSE Head(seqs) \o Flatten(Tail(seqs))

\* lines 8-24
\* a load that skips the sections JSON.parse rejects
loadAbbreviations_SkipInvalid(file) ==
    LET abbreviationsSections ==
            SelectSeq(SplitSections(StripTrailingCommas(StripDocstrings(file)), <<>>),
                      NotBlank)
        parsed == [i \in 1..Len(abbreviationsSections) |->
                      JSONParse(abbreviationsSections[i])]
        Ok(r) == r.ok
        valid == SelectSeq(parsed, Ok)
        entries == Flatten([i \in 1..Len(valid) |-> ObjectEntries(valid[i].value)])
    IN  [threw |-> FALSE,
         items |-> [i \in 1..Len(entries) |->
                       [shortName |-> entries[i].key,
                        fullName |-> entries[i].value]]]

\* lines 8-24
loadAbbreviations(file) ==
    LET abbreviationsSections ==
            SelectSeq(SplitSections(StripTrailingCommas(StripDocstrings(file)), <<>>),
                      NotBlank)
        parsed == [i \in 1..Len(abbreviationsSections) |->
                      JSONParse(abbreviationsSections[i])]
        entries == Flatten([i \in 1..Len(parsed) |-> ObjectEntries(parsed[i].value)])
    IN  IF \E i \in 1..Len(parsed) : ~parsed[i].ok
        THEN [threw |-> TRUE, items |-> <<>>]
        ELSE [threw |-> FALSE,
              items |-> [i \in 1..Len(entries) |->
                            [shortName |-> entries[i].key,
                             fullName |-> entries[i].value]]]

\* the last match instead of the first
abbreviation_Last(items, name) ==
    LET found == {i \in 1..Len(items) : items[i].fullName = name}
    IN  IF found = {} THEN name
        ELSE items[CHOOSE i \in found : \A j \in found : i >= j].shortName

\* no fallback to the name
abbreviation_NoFallback(items, name) ==
    LET found == {i \in 1..Len(items) : items[i].fullName = name}
    IN  IF found = {} THEN "undefined"
        ELSE items[CHOOSE i \in found : \A j \in found : i <= j].shortName

\* index.ts lines 13-16: ABBREVIATIONS.find(...) and the fallback
abbreviation(items, name) ==
    LET found == {i \in 1..Len(items) : items[i].fullName = name}
    IN  IF found = {} THEN name
        ELSE items[CHOOSE i \in found : \A j \in found : i <= j].shortName

----------------------------------------------------------------------------
(* Inputs *)

OverrideNames ==
    {"device_class", "unit_of_measurement", "state_class", "qos",
     "temperature_unit", "state_topic"}

AttrNames == SeqToSet(IgnoredAttrsLiteral) \cup OverrideNames \cup {"type", "name"}

DeclaredTypes ==
    {Scalar(s) : s \in {"template", "string", "icon", "float", "integer",
                        "boolean", "list", "map", "any"}}
    \cup {[scalar |-> TRUE, parts |-> <<"play", "list">>]}
    \cup {Alternatives(a) : a \in {<<"string", "list">>, <<"list", "string">>,
                                   <<"list">>, <<"string", "template">>}}

Descriptions ==
    { <<"text">>,
      <<"text", "/integrations/", "valve", "/#device-class", "text">>,
      <<"/integrations/", "binary_sensor", "/#device-class">>,
      <<"/integrations/", "valve", "/#device_class">>,
      <<"/integrations/", "/#device-class">>,
      <<"/integrations/", "sensor", "/#device-class",
        "/integrations/", "valve", "/#device-class">>,
      <<"/integrations/", "/#device-class",
        "/integrations/", "valve", "/#device-class">> }

NestedKeys == {NoKeys, Keys(<<"payload_available", "topic">>)}

\* every descriptor, for the tables of one attribute
Descriptors ==
    [name : AttrNames, description : Descriptions, required : BOOLEAN,
     type : DeclaredTypes, keys : NestedKeys]

\* the descriptors of the tables of several attributes
SmallDescriptors ==
    [name : {"platform", "state_topic", "qos", "name", "0"},
     description : {<<"text">>}, required : BOOLEAN,
     type : {Scalar("string"), Scalar("float")}, keys : {NoKeys}]

\* a YAML mapping has no key twice
DistinctNames(yml) ==
    \A i, j \in 1..Len(yml) : i # j => yml[i].name # yml[j].name

TablesOf(descriptors, n) ==
    {yml \in [1..n -> descriptors] : DistinctNames(yml)}

Tables ==
    TablesOf(Descriptors, 1)
    \cup UNION {TablesOf(SmallDescriptors, n) : n \in 1..MaxAttrs}

EntityNames == {"sensor", "valve"}
Docs == {"docA", "docB"}

Inputs ==
    {[e \in {"sensor"} |-> [doc |-> "docA", yml |-> t]] : t \in TablesOf(Descriptors, 1)}
    \cup UNION {{[e \in {n} |-> [doc |-> d, yml |-> t]] :
                    d \in Docs, t \in UNION {TablesOf(SmallDescriptors, k) : k \in 1..MaxAttrs}} :
                n \in EntityNames}
    \cup {[e \in EntityNames |-> [doc |-> "docA", yml |-> f[e]]] :
            f \in [EntityNames -> TablesOf(SmallDescriptors, 1)]}

----------------------------------------------------------------------------
(* The entity compiler: generateMqttEntityModel called on the entities of
   the input directory, any number of times. *)

Init ==
    /\ input \in Inputs
    /\ IGNORED_ATTRS = IgnoredAttrsLiteral
    /\ models = [e \in DOMAIN input |-> <<>>]
    /\ abbreviationsFile = <<>>
    /\ ABBREVIATIONS = [loaded |-> FALSE, threw |-> FALSE, items |-> <<>>]
    /\ lookups = <<>>
    /\ unitsFile = <<>>
    /\ unitsModel = [extracted |-> FALSE, groups |-> <<>>]
    /\ inputDir = <<>>
    /\ deviceClassesDir = <<>>
    /\ pc = "abbreviations"
    /\ entitiesModels = <<>>
    /\ enumsModels = <<>>
    /\ written = <<>>
    /\ console = <<>>

GenerateMqttEntityModel(entityName) ==
    /\ Len(models[entityName]) < MaxCompiles
    /\ LET m == generateMqttEntityModel(IGNORED_ATTRS, entityName,
                    input[entityName].doc, input[entityName].yml)
       IN  /\ models' = [models EXCEPT ![entityName] = Append(@, m)]
           /\ IGNORED_ATTRS' = IgnoredAttrsAfterCall(IGNORED_ATTRS, m.properties)
    /\ UNCHANGED <<input, abbrVars, unitsVars, dirVars, pc, runVars>>

Next == \E entityName \in DOMAIN input : GenerateMqttEntityModel(entityName)

Spec == Init /\ [][Next]_vars

----------------------------------------------------------------------------
(* rust_model.mustache, the properties loop *)

\* lines 34-39: {{#unless required}}Option<...>
IsOptional(attrs) == ~attrs.required

----------------------------------------------------------------------------
(* Properties of the entity compiler *)

\* the fields of the models returned so far
Fields ==
    {[e |-> e, k |-> k, i |-> i] :
        e \in DOMAIN input, k \in 1..MaxCompiles, i \in 1..(MaxAttrs + 1)}

Returned(x) ==
    /\ x.k <= Len(models[x.e])
    /\ x.i <= Len(models[x.e][x.k].properties)

FieldName(x) == models[x.e][x.k].properties[x.i].name
FieldAttrs(x) == models[x.e][x.k].properties[x.i].attrs
ModelOf(x) == models[x.e][x.k]

\* what the attribute table declares for the field
Declared(x) ==
    LET yml == input[x.e].yml
    IN  yml[CHOOSE j \in 1..Len(yml) : yml[j].name = FieldName(x)]

Declares(e, name) ==
    \E j \in 1..Len(input[e].yml) : input[e].yml[j].name = name

\* the names whose override replaces the inferred type
EnumNames ==
    {"device_class", "unit_of_measurement", "state_class", "qos", "temperature_unit"}

\* C1: no model returned by generateMqttEntityModel has a property whose
\* name is in the ignored set, whatever its type or requiredness.
C1_NoIgnoredAttribute ==
    \A x \in Fields :
        Returned(x) =>
            FieldName(x) \notin
                {"availability", "availability_mode", "availability_template",
                 "availability_topic", "payload_available", "payload_not_available",
                 "platform", "expire_after", "device", "entity_category"}

\* an entity that declares an ignored attribute as required, of a type with
\* an import, has been compiled
C1_Witness ==
    \E e \in DOMAIN input :
        /\ Len(models[e]) >= 1
        /\ \E j \in 1..Len(input[e].yml) :
              /\ input[e].yml[j].name = "entity_category"
              /\ input[e].yml[j].required
              /\ input[e].yml[j].type = Scalar("float")

\* C2: a retained state_topic is not required after compilation, whether
\* the table declared it required or not and whatever its declared type.
C2_StateTopicOptional ==
    \A x \in Fields :
        (Returned(x) /\ FieldName(x) = "state_topic") =>
            (~FieldAttrs(x).required /\ IsOptional(FieldAttrs(x)))

\* a state_topic declared required has been compiled
C2_Witness ==
    \E x \in Fields :
        /\ Returned(x)
        /\ FieldName(x) = "state_topic"
        /\ Declared(x).required
        /\ Declared(x).type = Scalar("integer")

\* C3 as claimed: an entity whose table declares platform compiles to a
\* model with a platform field whose defaultValue is the entity's name.
C3_PlatformFieldHasEntityName ==
    \A e \in DOMAIN input : \A k \in 1..Len(models[e]) :
        Declares(e, "platform") =>
            \E i \in 1..Len(models[e][k].properties) :
                /\ models[e][k].properties[i].name = "platform"
                /\ models[e][k].properties[i].attrs.defaultValue = <<e>>

\* C3, amended: an entity whose table declares platform compiles to a model
\* without a platform field (platform is in the ignored set), and no field
\* of the model has a defaultValue.
C3_PlatformDiscarded ==
    \A e \in DOMAIN input : \A k \in 1..Len(models[e]) :
        Declares(e, "platform") =>
            \A i \in 1..Len(models[e][k].properties) :
                /\ models[e][k].properties[i].name # "platform"
                /\ models[e][k].properties[i].attrs.defaultValue = Undefined

\* an entity declaring platform and another attribute has been compiled,
\* and the other attribute is a field of the model
C3_Witness ==
    \E e \in DOMAIN input :
        /\ Declares(e, "platform")
        /\ Len(models[e]) >= 1
        /\ Len(models[e][1].properties) >= 1

\* C4: a retained attribute declared boolean, whose name is not one with a
\* type override, has rustType bool, is no collection and is not
\* conversion-wrapped, required or not.
C4_BooleanIsBool ==
    \A x \in Fields :
        (/\ Returned(x)
         /\ Declared(x).type = Scalar("boolean")
         /\ FieldName(x) \notin EnumNames) =>
            /\ FieldAttrs(x).rustType = <<"bool">>
            /\ ~FieldAttrs(x).iterable
            /\ ~FieldAttrs(x).useInto

\* a required boolean with nested keys has been compiled
C4_Witness ==
    \E x \in Fields :
        /\ Returned(x)
        /\ Declared(x).type = Scalar("boolean")
        /\ FieldName(x) = "name"
        /\ Declared(x).required
        /\ Declared(x).keys.defined

\* C5 as claimed: every retained attribute declared list without keys is a
\* collection of String, conversion-wrapped.
C5_ListIsStringVector ==
    \A x \in Fields :
        (/\ Returned(x)
         /\ Declared(x).type = Scalar("list")
         /\ ~Declared(x).keys.defined) =>
            /\ FieldAttrs(x).iterable
            /\ FieldAttrs(x).rustType = <<"String">>
            /\ FieldAttrs(x).useInto

\* the first /integrations/<name>/#device-class of a description names a
\* domain
NamesDomain(desc) ==
    \E i \in 1..Len(desc) :
        /\ i + 2 <= Len(desc)
        /\ desc[i] = "/integrations/"
        /\ desc[i + 1] \in {"valve", "sensor", "binary_sensor"}
        /\ desc[i + 2] = "/#device-class"
        /\ \A j \in 1..(i - 1) :
              ~(desc[j] = "/integrations/" /\ desc[j + 1] = "/#device-class")

\* the field's type is replaced by a name override
TypeOverridden(x) ==
    \/ FieldName(x) \in {"unit_of_measurement", "state_class", "qos", "temperature_unit"}
    \/ FieldName(x) = "device_class" /\ NamesDomain(Declared(x).description)

\* C5, amended: a retained attribute declared list without keys is a
\* collection and conversion-wrapped; its rustType is String unless a name
\* override replaces the type (unit_of_measurement, state_class, qos,
\* temperature_unit, or device_class with a description naming a domain).
C5_ListIsVector ==
    \A x \in Fields :
        (/\ Returned(x)
         /\ Declared(x).type = Scalar("list")
         /\ ~Declared(x).keys.defined) =>
            /\ FieldAttrs(x).iterable
            /\ FieldAttrs(x).useInto
            /\ (~TypeOverridden(x) => FieldAttrs(x).rustType = <<"String">>)
            /\ (TypeOverridden(x) => FieldAttrs(x).rustType # <<"String">>)

\* a list without keys has been compiled under a name without override
C5_Witness ==
    \E x \in Fields :
        /\ Returned(x)
        /\ Declared(x).type = Scalar("list")
        /\ ~Declared(x).keys.defined
        /\ FieldName(x) = "state_topic"
        /\ FieldAttrs(x).rustType = <<"String">>

\* C6: qos declared integer and optional compiles to rustType Qos, stays
\* optional, carries the Qos import, and the model's imports hold it.
C6_QosOverride ==
    \A x \in Fields :
        (/\ Returned(x)
         /\ FieldName(x) = "qos"
         /\ Declared(x).type = Scalar("integer")
         /\ ~Declared(x).required) =>
            /\ FieldAttrs(x).rustType = <<"Qos">>
            /\ IsOptional(FieldAttrs(x))
            /\ FieldAttrs(x).import = <<"use crate::common::", "Qos">>
            /\ ArrayIncludes(ModelOf(x).imports, <<"use crate::common::", "Qos">>)

\* an optional integer qos has been compiled
C6_Witness ==
    \E x \in Fields :
        /\ Returned(x)
        /\ FieldName(x) = "qos"
        /\ Declared(x).type = Scalar("integer")
        /\ ~Declared(x).required

C17_ImportsOfFields ==
    \A e \in DOMAIN input : \A k \in 1..Len(models[e]) :
        LET m == models[e][k]
        IN  /\ \A i, j \in 1..Len(m.imports) : i # j => m.imports[i] # m.imports[j]
            /\ \A i \in 1..Len(m.properties) :
                  m.properties[i].attrs.import # Undefined =>
                      ArrayIncludes(m.imports, m.properties[i].attrs.import)
            /\ \A j \in 1..Len(m.imports) :
                  /\ m.imports[j] # Undefined
                  /\ \E i \in 1..Len(m.properties) :
                        m.properties[i].attrs.import = m.imports[j]

\* a model with two fields that carry the same import has been returned
C17_Witness ==
    \E e \in DOMAIN input :
        /\ Len(models[e]) >= 1
        /\ \E i, j \in 1..Len(models[e][1].properties) :
              /\ i # j
              /\ models[e][1].properties[i].attrs.import # Undefined
              /\ models[e][1].properties[i].attrs.import =
                    models[e][1].properties[j].attrs.import

\* C20: for a name without type override, template, string and icon give
\* String, conversion-wrapped, without import and no collection; float
\* gives Decimal with the rust_decimal import and no wrapper; integer gives
\* i32 without import and without wrapper.
C20_ScalarInference ==
    \A x \in Fields :
        (Returned(x) /\ FieldName(x) \notin EnumNames) =>
            LET t == Declared(x).type
                a == FieldAttrs(x)
            IN  /\ t \in {Scalar("template"), Scalar("string"), Scalar("icon")} =>
                      /\ a.rustType = <<"String">>
                      /\ a.useInto
                      /\ a.import = Undefined
                      /\ ~a.iterable
                /\ t = Scalar("float") =>
                      /\ a.rustType = <<"Decimal">>
                      /\ a.import = <<"pub use rust_decimal::Decimal">>
                      /\ ~a.useInto
                      /\ ~a.iterable
                /\ t = Scalar("integer") =>
                      /\ a.rustType = <<"i32">>
                      /\ a.import = Undefined
                      /\ ~a.useInto
                      /\ ~a.iterable

\* a required float has been compiled under a name without override
C20_Witness ==
    \E x \in Fields :
        /\ Returned(x)
        /\ FieldName(x) = "type"
        /\ Declared(x).type = Scalar("float")
        /\ Declared(x).required
        /\ FieldAttrs(x).rustType = <<"Decimal">>

----------------------------------------------------------------------------
(* The abbreviation table: index.ts loads it when the module is evaluated,
   and the template helper looks names up in it. *)

\* pairs per abbreviation source
MaxPairs == 3

Shorts == {"a", "0", ""}
Fulls == {"x", "y"}
LookupNames == Fulls \cup {"z"}

\* a source: its pairs in order, each opening a new section or not, with
\* or without a docstring line on top and before the later sections, with
\* or without a comma after the last pair of a section, and with or without
\* an empty line before the last closing brace
Layouts ==
    UNION {{l \in [1..n -> [short : Shorts, full : Fulls, newSection : BOOLEAN]] :
                l[1].newSection} : n \in 1..MaxPairs}

LinesOfPair(layout, i, sectionDoc, trailingComma) ==
    LET last == i = Len(layout) \/ layout[i + 1].newSection
        opening ==
            IF ~layout[i].newSection THEN <<>>
            ELSE (IF i > 1 THEN <<Line("close"), Line("blank")>> ELSE <<>>)
                 \o (IF i > 1 /\ sectionDoc THEN <<Line("doc")>> ELSE <<>>)
                 \o <<Line("header")>>
    IN  opening \o <<Entry(layout[i].short, layout[i].full, ~last \/ trailingComma)>>

SourceOf(layout, topDoc, sectionDoc, trailingComma, gap) ==
    (IF topDoc THEN <<Line("doc")>> ELSE <<>>)
    \o Flatten([i \in 1..Len(layout) |->
                   LinesOfPair(layout, i, sectionDoc, trailingComma)])
    \o (IF gap THEN <<Line("blank")>> ELSE <<>>)
    \o <<Line("close")>>

\* the ways a source is written: as the real file is (trailing commas,
\* a docstring on top), and that one with one thing changed
Writings ==
    {[topDoc |-> TRUE,  sectionDoc |-> FALSE, trailingComma |-> TRUE,  gap |-> FALSE],
     [topDoc |-> FALSE, sectionDoc |-> FALSE, trailingComma |-> TRUE,  gap |-> FALSE],
     [topDoc |-> TRUE,  sectionDoc |-> TRUE,  trailingComma |-> TRUE,  gap |-> FALSE],
     [topDoc |-> TRUE,  sectionDoc |-> FALSE, trailingComma |-> FALSE, gap |-> FALSE],
     [topDoc |-> FALSE, sectionDoc |-> FALSE, trailingComma |-> TRUE,  gap |-> TRUE],
     [topDoc |-> FALSE, sectionDoc |-> FALSE, trailingComma |-> FALSE, gap |-> TRUE]}

AbbreviationFiles ==
    {SourceOf(l, w.topDoc, w.sectionDoc, w.trailingComma, w.gap) :
        l \in Layouts, w \in Writings}

InitAbbr ==
    /\ abbreviationsFile \in AbbreviationFiles
    /\ ABBREVIATIONS = [loaded |-> FALSE, threw |-> FALSE, items |-> <<>>]
    /\ lookups = {}
    /\ input = <<>>
    /\ IGNORED_ATTRS = IgnoredAttrsLiteral
    /\ models = <<>>
    /\ unitsFile = <<>>
    /\ unitsModel = [extracted |-> FALSE, groups |-> <<>>]
    /\ inputDir = <<>>
    /\ deviceClassesDir = <<>>
    /\ pc = "abbreviations"
    /\ entitiesModels = <<>>
    /\ enumsModels = <<>>
    /\ written = <<>>
    /\ console = <<>>

\* index.ts line 11: an error thrown here ends the run
LoadAbbreviations ==
    /\ pc = "abbreviations"
    /\ ~ABBREVIATIONS.loaded
    /\ LET r == loadAbbreviations(abbreviationsFile)
       IN  /\ ABBREVIATIONS' = [loaded |-> TRUE, threw |-> r.threw, items |-> r.items]
           /\ pc' = IF r.threw THEN "aborted" ELSE "entities"
    /\ UNCHANGED <<abbreviationsFile, lookups, entityVars, unitsVars, dirVars, runVars>>

\* index.ts lines 13-16, called by the template with a property's key
AbbreviationHelper(name) ==
    /\ ABBREVIATIONS.loaded
    /\ ~ABBREVIATIONS.threw
    /\ lookups' = lookups \cup
          {[name |-> name, result |-> abbreviation(ABBREVIATIONS.items, name)]}
    /\ UNCHANGED <<abbreviationsFile, ABBREVIATIONS, entityVars, unitsVars, dirVars,
                   pc, runVars>>

NextAbbr ==
    \/ LoadAbbreviations
    \/ \E name \in LookupNames : AbbreviationHelper(name)

SpecAbbr == InitAbbr /\ [][NextAbbr]_vars

Items == ABBREVIATIONS.items

\* C8 as claimed: looking up the fullName of any loaded pair yields that
\* pair's shortName.
C8_RoundTrip ==
    \A l \in lookups : \A i \in 1..Len(Items) :
        Items[i].fullName = l.name => l.result = Items[i].shortName

\* C8, amended: looking up the fullName of a loaded pair yields that pair's
\* shortName when no earlier loaded pair has the same fullName.
C8_RoundTripOfFirst ==
    \A l \in lookups : \A i \in 1..Len(Items) :
        (/\ Items[i].fullName = l.name
         /\ \A j \in 1..(i - 1) : Items[j].fullName # Items[i].fullName) =>
            l.result = Items[i].shortName

\* the fullName of two loaded pairs with different shortNames has been
\* looked up
C8_Witness ==
    \E l \in lookups : \E i, j \in 1..Len(Items) :
        /\ i < j
        /\ Items[i].fullName = l.name
        /\ Items[j].fullName = l.name
        /\ Items[i].shortName # Items[j].shortName

\* C9: the lookup returns the shortName of the first entry, in list order,
\* whose fullName is the name, and the name itself when there is none.
C9_FirstMatchOrName ==
    \A l \in lookups :
        LET matches == {i \in 1..Len(Items) : Items[i].fullName = l.name}
        IN  /\ matches = {} => l.result = l.name
            /\ \A i \in matches :
                  (\A j \in matches : i <= j) => l.result = Items[i].shortName

\* a name without entry and a name with two entries have been looked up
C9_Witness ==
    /\ \E l \in lookups : \A i \in 1..Len(Items) : Items[i].fullName # l.name
    /\ \E l \in lookups : \E i, j \in 1..Len(Items) :
          i # j /\ Items[i].fullName = l.name /\ Items[j].fullName = l.name

\* the pairs a source writes, in source order
SourcePairs(file) ==
    LET IsEntry(l) == l.kind = "entry"
        entries == SelectSeq(file, IsEntry)
    IN  [i \in 1..Len(entries) |->
            [shortName |-> entries[i].short, fullName |-> entries[i].full]]

\* several sections, each a header, pairs that all end with a comma, and
\* the closing brace right after the last pair
SectionsWithTrailingCommas(file) ==
    /\ Cardinality({i \in 1..Len(file) : file[i].kind = "header"}) >= 2
    /\ \A i \in 1..Len(file) :
          /\ file[i].kind # "doc"
          /\ file[i].kind = "entry" => file[i].comma
          /\ file[i].kind = "close" => (i > 1 /\ file[i - 1].kind = "entry")
          /\ file[i].kind = "header" => (i < Len(file) /\ file[i + 1].kind = "entry")

\* no pair is written twice
PairsWrittenOnce(file) ==
    LET pairs == SourcePairs(file)
    IN  \A i, j \in 1..Len(pairs) : pairs[i] = pairs[j] => i = j

\* C14: a source of several sections, each a JSON object with a comma after
\* its last entry, loads into the pairs of all its sections, in source order
\* (stated for sources that write no pair twice).
C14_UnionInSourceOrder ==
    (/\ ABBREVIATIONS.loaded
     /\ SectionsWithTrailingCommas(abbreviationsFile)
     /\ PairsWrittenOnce(abbreviationsFile)) =>
        /\ ~ABBREVIATIONS.threw
        /\ Items = SourcePairs(abbreviationsFile)

\* C18: the wire name the lookup gives for a non-empty attribute name is
\* not empty, whatever the loaded table.
C18_WireNameNotEmpty ==
    \A l \in lookups : l.name # "" => l.result # ""

----------------------------------------------------------------------------
(* units.ts: extractUnitsEnums *)

\* lines of units.py; "nul" is the \u0000 that separates two chunks
Nul == [kind |-> "nul", name |-> "", value |-> ""]
\* "class UnitOf<name>(StrEnum):"; with an empty name, "class UnitOf(StrEnum):"
ClassLine(name) == [kind |-> "class", name |-> name, value |-> ""]
\* "    NAME = "value""
Assignment(name, value) == [kind |-> "assign", name |-> name, value |-> value]
\* a docstring, a comment
OtherLine == [kind |-> "other", name |-> "", value |-> ""]

\* line 17: String.split on a separator gives one more piece than there are
\* separators, empty pieces included
RECURSIVE SplitOnNul(_, _)
SplitOnNul(lines, current) ==
    IF lines = <<>> THEN <<current>>
    ELSE IF Head(lines).kind = "nul"
         THEN <<current>> \o SplitOnNul(Tail(lines), <<>>)
         ELSE SplitOnNul(Tail(lines), Append(current, Head(lines)))

\* line 19: the first match of /.*class UnitOf(\w+).*/ in the chunk, [1] of
\* it, undefined when there is none; \w+ needs one character at least
ClassName(unitContent) ==
    LET Matches(l) == l.kind = "class" /\ l.name # ""
        matches == SelectSeq(unitContent, Matches)
    IN  IF matches = <<>> THEN Undefined ELSE <<matches[1].name>>

\* lines 31-38
fixUnitName(name) ==
    CASE name = "MILLIWATT" -> "MILLI_WATT"
      [] OTHER -> name

\* lines 20-26: every match of /    (?<name>\S+) = "(?<unit>[^"]+)"/g, in
\* order; [^"]+ needs one character at least
UnitsOf(unitContent) ==
    LET Matches(l) == l.kind = "assign" /\ l.value # ""
        matches == SelectSeq(unitContent, Matches)
    IN  [i \in 1..Len(matches) |->
            [unitName |-> fixUnitName(matches[i].name),
             unitAbbreviation |-> matches[i].value]]

\* the groups without the filter of line 28
KeepNamed_All(groups) == groups

\* line 28
KeepNamed(groups) ==
    LET Named(unit) == unit.name # Undefined
    IN  SelectSeq(groups, Named)

\* lines 13-29
extractUnitsEnums(file) ==
    LET chunks == SplitOnNul(file, <<>>)
    IN  KeepNamed([i \in 1..Len(chunks) |->
                      [name |-> ClassName(chunks[i]), units |-> UnitsOf(chunks[i])]])

\* lines and separators of units.py
MaxUnitLines == 4

UnitLines ==
    {Nul, OtherLine, ClassLine("Power"), ClassLine("Energy"), ClassLine(""),
     Assignment("WATT", "W"), Assignment("MILLIWATT", "mW"),
     Assignment("MILLI_WATT", "mW"), Assignment("WATT", "")}

UnitsFiles == UNION {[1..n -> UnitLines] : n \in 0..MaxUnitLines}

InitUnits ==
    /\ unitsFile \in UnitsFiles
    /\ unitsModel = [extracted |-> FALSE, groups |-> <<>>]
    /\ input = <<>>
    /\ IGNORED_ATTRS = IgnoredAttrsLiteral
    /\ models = <<>>
    /\ abbreviationsFile = <<>>
    /\ ABBREVIATIONS = [loaded |-> FALSE, threw |-> FALSE, items |-> <<>>]
    /\ lookups = {}
    /\ inputDir = <<>>
    /\ deviceClassesDir = <<>>
    /\ pc = "units"
    /\ entitiesModels = <<>>
    /\ enumsModels = <<>>
    /\ written = <<>>
    /\ console = <<>>

\* index.ts line 76
ExtractUnitsEnums ==
    /\ pc = "units"
    /\ ~unitsModel.extracted
    /\ unitsModel' = [extracted |-> TRUE, groups |-> extractUnitsEnums(unitsFile)]
    /\ pc' = "writeMod"
    /\ UNCHANGED <<unitsFile, entityVars, abbrVars, dirVars, runVars>>

NextUnits == ExtractUnitsEnums

SpecUnits == InitUnits /\ [][NextUnits]_vars

\* the chunk a line of units.py is in: the separators before it
ChunkAt(i) == Cardinality({j \in 1..(i - 1) : unitsFile[j].kind = "nul"})

\* the header lines and the assignment lines of chunk c, by position
HeaderLinesOf(c) ==
    {i \in 1..Len(unitsFile) :
        ChunkAt(i) = c /\ unitsFile[i].kind = "class" /\ unitsFile[i].name # ""}

AssignmentLinesOf(c) ==
    {i \in 1..Len(unitsFile) :
        ChunkAt(i) = c /\ unitsFile[i].kind = "assign" /\ unitsFile[i].value # ""}

\* the chunks that hold a header line "class UnitOf<Name>"
NamedChunks == {c \in 0..Len(unitsFile) : HeaderLinesOf(c) # {}}

\* the elements of a set of numbers, ascending
RECURSIVE Ascending(_)
Ascending(S) ==
    IF S = {} THEN <<>>
    ELSE LET m == CHOOSE x \in S : \A y \in S : x <= y
         IN  <<m>> \o Ascending(S \ {m})

Groups == unitsModel.groups

\* C15: the groups are, in source order, one per chunk with a header
\* "class UnitOf<Name>", named <Name>, each with one unit per line
\* NAME = "value" of its chunk (value not empty), in source order; a chunk
\* without such a header gives no group and its assignments are in none.
C15_OneGroupPerNamedChunk ==
    unitsModel.extracted =>
        LET named == Ascending(NamedChunks)
        IN  /\ Len(Groups) = Len(named)
            /\ \A k \in 1..Len(named) :
                  LET header == Ascending(HeaderLinesOf(named[k]))[1]
                      lines == Ascending(AssignmentLinesOf(named[k]))
                  IN  /\ Groups[k].name = <<unitsFile[header].name>>
                      /\ Len(Groups[k].units) = Len(lines)
                      /\ \A u \in 1..Len(lines) :
                            /\ Groups[k].units[u].unitAbbreviation =
                                  unitsFile[lines[u]].value
                            /\ Groups[k].units[u].unitName =
                                  IF unitsFile[lines[u]].name = "MILLIWATT"
                                  THEN "MILLI_WATT"
                                  ELSE unitsFile[lines[u]].name

\* a file of two chunks has been extracted: one without header that holds
\* an assignment, then one with a header and an assignment
C15_Witness ==
    /\ unitsModel.extracted
    /\ NamedChunks = {1}
    /\ AssignmentLinesOf(0) # {}
    /\ Len(Groups) = 1
    /\ Len(Groups[1].units) = 1

\* C16: in a group whose chunk writes pairwise distinct names, the variant
\* identifiers are pairwise distinct after the rename.
C16_VariantsDistinct ==
    unitsModel.extracted =>
        LET named == Ascending(NamedChunks)
        IN  \A k \in 1..Len(Groups) :
               LET lines == AssignmentLinesOf(named[k])
                   units == Groups[k].units
               IN  (\A i, j \in lines :
                       unitsFile[i].name = unitsFile[j].name => i = j) =>
                   (\A u, v \in 1..Len(units) :
                       units[u].unitName = units[v].unitName => u = v)

----------------------------------------------------------------------------
(* entity.ts: generateMqttEntityModel on any table text.  A document is what
   YAML.parse makes of the text:
   "invalid"   no YAML: YAML.parse throws
   "null"      an empty document: null
   "number"    a scalar that is a number or a boolean
   "string"    a scalar that is a non-empty string
   "scalars"   a sequence of scalars
   "sequence"  a sequence of mappings, each an attribute descriptor
   "mapping"   a mapping of attribute name to attribute descriptor *)

Document(shape, table) == [shape |-> shape, table |-> table]

\* Object.entries of an array: the indices as keys
IndexNamed(table) ==
    [i \in 1..Len(table) |-> [table[i] EXCEPT !.name = ToString(i - 1)]]

\* the outcomes of a call: an error thrown, after console.error of the
\* table text or not, or a model returned
ErrorThrown == [threw |-> TRUE, logged |-> TRUE, returned |-> <<>>]
ModelReturned(model) == [threw |-> FALSE, logged |-> FALSE, returned |-> <<model>>]

\* lines 149-170.  YAML.parse throws on what is no YAML; Object.entries
\* throws on null, is empty on a number or a boolean, lists the characters
\* of a string and the elements of an array; appendRustType throws on an
\* entry whose value is a scalar (attrs.type is undefined, line 204).
tryGenerateMqttEntityModel(ignored, entityName, docContent, document) ==
    CASE document.shape \in {"invalid", "null", "string", "scalars"} -> ErrorThrown
      [] document.shape = "number" ->
            ModelReturned(generateMqttEntityModel(ignored, entityName, docContent, <<>>))
      [] document.shape = "sequence" ->
            ModelReturned(generateMqttEntityModel(ignored, entityName, docContent,
                                             IndexNamed(document.table)))
      [] OTHER ->
            ModelReturned(generateMqttEntityModel(ignored, entityName, docContent,
                                             document.table))

----------------------------------------------------------------------------
(* device-class.ts: extractDeviceClassesEnums, as the specification
   describes it.  A documentation file: its name in parts, whether it has a
   "Device Class" heading, and the wire values listed under it. *)

extractDeviceClassesEnums(name, file) ==
    [name |-> name,
     variants |-> IF file.section
                  THEN [i \in 1..Len(file.values) |->
                           [variantIdentifier |-> toPascalCase(file.values[i]),
                            wireValue |-> file.values[i]]]
                  ELSE <<>>]

----------------------------------------------------------------------------
(* index.ts: the run *)

\* line 55: String.replace of a string removes its first occurrence
ReplaceMarkdown(deviceDocFile) ==
    LET hits == {i \in 1..Len(deviceDocFile) : deviceDocFile[i] = ".markdown"}
    IN  IF hits = {} THEN deviceDocFile
        ELSE LET first == CHOOSE i \in hits : \A j \in hits : i <= j
             IN  SubSeq(deviceDocFile, 1, first - 1)
                 \o SubSeq(deviceDocFile, first + 1, Len(deviceDocFile))

\* a map that leaves out the domains without variant
MapDeviceClasses_SkipEmpty(dir) ==
    LET all == [i \in 1..Len(dir) |->
                   extractDeviceClassesEnums(ReplaceMarkdown(dir[i].name), dir[i])]
        HasVariants(e) == e.variants # <<>>
    IN  SelectSeq(all, HasVariants)

\* lines 52-60
MapDeviceClasses(dir) ==
    [i \in 1..Len(dir) |->
        extractDeviceClassesEnums(ReplaceMarkdown(dir[i].name), dir[i])]

\* a run that goes on after an error of generateMqttEntityModel
PcAfterCompile_Continue(r) == "entities"

\* line 29: nothing catches what generateMqttEntityModel throws
PcAfterCompile(r) == IF r.threw THEN "aborted" ELSE "entities"

\* entities of generator/input/
MaxEntities == 2
\* files of generator/input/device_classes/
MaxFiles == 2

RunEntityNames == <<"sensor", "tag", "valve">>

StateTopic ==
    [name |-> "state_topic", description |-> <<"text">>, required |-> TRUE,
     type |-> Scalar("string"), keys |-> NoKeys]

RunDocuments ==
    {Document(shape, <<>>) :
        shape \in {"invalid", "null", "number", "string", "scalars", "sequence",
                   "mapping"}}
    \cup {Document(shape, <<StateTopic>>) : shape \in {"sequence", "mapping"}}

\* readdirSync lists the names in order
InputDirs ==
    UNION {{dir \in [1..n -> [entityName : SeqToSet(RunEntityNames), doc : {"docA"},
                              document : RunDocuments]] :
               \A i, j \in 1..n :
                  i < j => \E a, b \in 1..Len(RunEntityNames) :
                              /\ a < b
                              /\ RunEntityNames[a] = dir[i].entityName
                              /\ RunEntityNames[b] = dir[j].entityName}
           : n \in 0..MaxEntities}

DeviceClassFileNames ==
    {<<"cover", ".markdown">>, <<"sensor", ".markdown">>,
     <<"binary_sensor", ".mqtt", ".markdown">>}

DeviceClassFiles ==
    [name : DeviceClassFileNames, section : {FALSE}, values : {<<>>}]
    \cup [name : DeviceClassFileNames, section : {TRUE},
          values : {<<>>, <<"motion">>}]

DeviceClassesDirs ==
    UNION {{dir \in [1..n -> DeviceClassFiles] :
               \A i, j \in 1..n : i # j => dir[i].name # dir[j].name}
           : n \in 0..MaxFiles}

\* the sources whose sections hold one pair each
RunAbbreviationFiles ==
    {SourceOf(l, w.topDoc, w.sectionDoc, w.trailingComma, w.gap) :
        l \in {x \in Layouts : \A i \in 1..Len(x) : x[i].newSection},
        w \in Writings}

RunUnitsFiles ==
    {<<>>,
     <<ClassLine("Power"), Assignment("WATT", "W"), Nul>>,
     <<ClassLine(""), Assignment("WATT", "W")>>}

DefaultAbbreviationsFile ==
    <<Line("header"), Entry("a", "x", TRUE), Line("close")>>

DefaultInputDir ==
    <<[entityName |-> "sensor", doc |-> "docA",
       document |-> Document("mapping", <<StateTopic>>)]>>

\* a run over any input directory, over any abbreviation source, or over
\* any device-class directory and units file, the rest being as usual
InitRun ==
    /\ \/ /\ inputDir \in InputDirs
          /\ abbreviationsFile = DefaultAbbreviationsFile
          /\ deviceClassesDir = <<>>
          /\ unitsFile = <<>>
       \/ /\ inputDir = DefaultInputDir
          /\ abbreviationsFile \in RunAbbreviationFiles
          /\ deviceClassesDir = <<>>
          /\ unitsFile = <<>>
       \/ /\ inputDir = DefaultInputDir
          /\ abbreviationsFile = DefaultAbbreviationsFile
          /\ deviceClassesDir \in DeviceClassesDirs
          /\ unitsFile \in RunUnitsFiles
    /\ pc = "abbreviations"
    /\ ABBREVIATIONS = [loaded |-> FALSE, threw |-> FALSE, items |-> <<>>]
    /\ IGNORED_ATTRS = IgnoredAttrsLiteral
    /\ entitiesModels = <<>>
    /\ enumsModels = <<>>
    /\ unitsModel = [extracted |-> FALSE, groups |-> <<>>]
    /\ written = <<>>
    /\ console = <<>>
    /\ lookups = {}
    /\ input = <<>>
    /\ models = <<>>

\* line 29, one call of the map
CompileEntity ==
    /\ pc = "entities"
    /\ Len(entitiesModels) < Len(inputDir)
    /\ LET e == inputDir[Len(entitiesModels) + 1]
           r == tryGenerateMqttEntityModel(IGNORED_ATTRS, e.entityName, e.doc,
                                           e.document)
       IN  /\ entitiesModels' = entitiesModels \o r.returned
           /\ console' = IF r.logged THEN Append(console, e.entityName) ELSE console
           /\ pc' = PcAfterCompile(r)
    /\ UNCHANGED <<entityVars, abbrVars, unitsVars, dirVars, enumsModels, written>>

\* lines 31-49, once the map of line 29 is over
WriteEntities ==
    /\ pc = "entities"
    /\ Len(entitiesModels) = Len(inputDir)
    /\ written' = Append(written, "entities.rs")
    /\ pc' = "deviceClasses"
    /\ UNCHANGED <<entityVars, abbrVars, unitsVars, dirVars, entitiesModels,
                   enumsModels, console>>

\* lines 52-60; lines 63-70 build the text of the module list
ExtractDeviceClasses ==
    /\ pc = "deviceClasses"
    /\ enumsModels' = MapDeviceClasses(deviceClassesDir)
    /\ pc' = "units"
    /\ UNCHANGED <<entityVars, abbrVars, unitsVars, dirVars, entitiesModels,
                   written, console>>

\* lines 80-90
WriteMod ==
    /\ pc = "writeMod"
    /\ written' = Append(written, "mod.rs")
    /\ pc' = "done"
    /\ UNCHANGED <<entityVars, abbrVars, unitsVars, dirVars, entitiesModels,
                   enumsModels, console>>

NextRun ==
    \/ LoadAbbreviations
    \/ CompileEntity
    \/ WriteEntities
    \/ ExtractDeviceClasses
    \/ ExtractUnitsEnums
    \/ WriteMod

SpecRun == InitRun /\ [][NextRun]_vars

\* C11 as claimed: generateMqttEntityModel returns a model for no table that
\* is not a mapping: the models returned are those of mappings.
C11_ModelsOfMappingsOnly ==
    \A i \in 1..Len(entitiesModels) : inputDir[i].document.shape = "mapping"

SectionsOf(file) ==
    SelectSeq(SplitSections(StripTrailingCommas(StripDocstrings(file)), <<>>),
              NotBlank)

SomeSectionInvalid(file) ==
    \E i \in 1..Len(SectionsOf(file)) : ~JSONParse(SectionsOf(file)[i]).ok

SomeSectionValid(file) ==
    \E i \in 1..Len(SectionsOf(file)) :
        /\ JSONParse(SectionsOf(file)[i]).ok
        /\ ObjectEntries(JSONParse(SectionsOf(file)[i]).value) # <<>>

C19_OneEnumPerFile ==
    pc \in {"units", "writeMod", "done"} =>
        /\ Len(enumsModels) = Len(deviceClassesDir)
        /\ \A i \in 1..Len(deviceClassesDir) :
              /\ enumsModels[i].name \o <<".markdown">> = deviceClassesDir[i].name
              /\ ~deviceClassesDir[i].section => enumsModels[i].variants = <<>>
              /\ Len(enumsModels[i].variants) = Len(deviceClassesDir[i].values)

\* a directory of a file with a Device Class section and variants and a
\* file without has been extracted
C19_Witness ==
    /\ pc = "done"
    /\ Len(enumsModels) = 2
    /\ \E i, j \in 1..2 :
          /\ ~deviceClassesDir[i].section
          /\ enumsModels[i].variants = <<>>
          /\ enumsModels[j].variants # <<>>

----------------------------------------------------------------------------
(* Properties of appendRustType, on the models returned under Spec *)

\* what YAML.parse gives for the field's descriptor
Parsed(x) == YAMLParse(<<Declared(x)>>)[1].attrs

\* what lines 179-209 alone make of the field's descriptor
Inferred(x) == InferFromDeclaredType(Parsed(x))

\* what the compiler makes of the field's descriptor declared as plain list
AsPlainList(x) ==
    appendRustType(FieldName(x), [Parsed(x) EXCEPT !.type = Scalar("list")])

SameTyping(a, b) ==
    /\ a.rustType = b.rustType
    /\ a.iterable = b.iterable
    /\ a.useInto = b.useInto
    /\ a.import = b.import

ListAlternative(type) == ~type.scalar /\ ArrayIncludes(type.parts, "list")

\* C21 as claimed: a field declared with alternatives that contain list has
\* the rustType, collection flag, wrapper and import of the same attribute,
\* with the same keys, declared as plain list.
C21_AlternativesAsPlainList ==
    \A x \in Fields :
        (Returned(x) /\ ListAlternative(Declared(x).type)) =>
            SameTyping(FieldAttrs(x), AsPlainList(x))

OpenStructure(d) ==
    \/ d.type = Scalar("map")
    \/ d.type = Scalar("list") /\ d.keys.defined

\* C22: a retained attribute declared map, or list with keys, under a name
\* without type override, has no rustType, no collection flag, no wrapper
\* and no import; every such attribute of the table is a field of the
\* model, and no field has a name the table does not declare at top level.
C22_OpenStructureUntouched ==
    /\ \A x \in Fields :
          Returned(x) =>
             /\ Declares(x.e, FieldName(x))
             /\ (OpenStructure(Declared(x)) /\ FieldName(x) \notin EnumNames) =>
                   /\ FieldAttrs(x).rustType = Undefined
                   /\ ~FieldAttrs(x).iterable
                   /\ ~FieldAttrs(x).useInto
                   /\ FieldAttrs(x).import = Undefined
    /\ \A e \in DOMAIN input : \A k \in 1..Len(models[e]) :
          \A j \in 1..Len(input[e].yml) :
             (/\ OpenStructure(input[e].yml[j])
              /\ ~ArrayIncludes(IgnoredAttrsLiteral, input[e].yml[j].name)) =>
                \E i \in 1..Len(models[e][k].properties) :
                   models[e][k].properties[i].name = input[e].yml[j].name

\* a list with keys has been compiled under the name state_topic
C22_Witness ==
    \E x \in Fields :
        /\ Returned(x)
        /\ FieldName(x) = "state_topic"
        /\ Declared(x).type = Scalar("list")
        /\ Declared(x).keys.defined
        /\ FieldAttrs(x).rustType = Undefined

\* the description holds /integrations/<name>/#device-class, name not empty
HasFragment(desc) ==
    \E i \in 1..Len(desc) :
        /\ i + 2 <= Len(desc)
        /\ desc[i] = "/integrations/"
        /\ desc[i + 1] \notin {"/integrations/", "/#device-class", "/#device_class"}
        /\ desc[i + 2] = "/#device-class"

\* C23: a device_class field whose description does not hold the fragment
\* has the rustType, collection flag, wrapper and import that the declared
\* type alone gives.
C23_DeviceClassWithoutFragment ==
    \A x \in Fields :
        (/\ Returned(x)
         /\ FieldName(x) = "device_class"
         /\ ~HasFragment(Declared(x).description)) =>
            SameTyping(FieldAttrs(x), Inferred(x))

\* a device_class declared float whose description uses the anchor
\* #device_class has been compiled
C23_Witness ==
    \E x \in Fields :
        /\ Returned(x)
        /\ FieldName(x) = "device_class"
        /\ Declared(x).description = <<"/integrations/", "valve", "/#device_class">>
        /\ Declared(x).type = Scalar("float")
        /\ FieldAttrs(x).rustType = <<"Decimal">>

EnumOf(name) ==
    CASE name = "unit_of_measurement" -> <<"use crate::generated::", "Unit">>
      [] name = "state_class" -> <<"use crate::common::", "SensorStateClass">>
      [] name = "qos" -> <<"use crate::common::", "Qos">>
      [] name = "temperature_unit" -> <<"use crate::common::", "TemperatureUnit">>
      [] OTHER -> Undefined

\* C24: a field named unit_of_measurement, state_class, qos or
\* temperature_unit has the rustType Unit, SensorStateClass, Qos or
\* TemperatureUnit and the import of that enum, whatever its declared type;
\* when it is the only field, that import is the only one of the model.
C24_NameWinsOverType ==
    \A x \in Fields :
        (Returned(x) /\ EnumOf(FieldName(x)) # Undefined) =>
            /\ FieldAttrs(x).rustType = <<EnumOf(FieldName(x))[2]>>
            /\ FieldAttrs(x).import = EnumOf(FieldName(x))
            /\ ArrayIncludes(ModelOf(x).imports, EnumOf(FieldName(x)))
            /\ Len(ModelOf(x).properties) = 1 =>
                  ModelOf(x).imports = <<EnumOf(FieldName(x))>>

\* a unit_of_measurement declared float has been compiled
C24_Witness ==
    \E x \in Fields :
        /\ Returned(x)
        /\ FieldName(x) = "unit_of_measurement"
        /\ Declared(x).type = Scalar("float")
        /\ FieldAttrs(x).rustType = <<"Unit">>

\* C25: the rustSafeName of the field named type is r#type, that of every
\* other field is its name, and the key of the property (what the template
\* hands to the abbreviation helper) is the name the table declares.
C25_OnlyTypeEscaped ==
    \A x \in Fields :
        Returned(x) =>
            /\ Declares(x.e, FieldName(x))
            /\ FieldAttrs(x).rustSafeName =
                  IF FieldName(x) = "type" THEN <<"r#", "type">> ELSE <<FieldName(x)>>

\* a field named type has been compiled
C25_Witness ==
    \E x \in Fields :
        /\ Returned(x)
        /\ FieldName(x) = "type"
        /\ FieldAttrs(x).rustSafeName = <<"r#", "type">>

\* C30: the enum overrides leave required, the collection flag and the
\* wrapper as the declared type and the table give them; state_topic has
\* the typing of its declared type; every field but state_topic is optional
\* exactly when the table does not declare it required.
C30_OverrideFrame ==
    \A x \in Fields :
        Returned(x) =>
            /\ FieldAttrs(x).iterable = Inferred(x).iterable
            /\ FieldAttrs(x).useInto = Inferred(x).useInto
            /\ FieldName(x) \notin EnumNames => SameTyping(FieldAttrs(x), Inferred(x))
            /\ FieldName(x) # "state_topic" =>
                  /\ FieldAttrs(x).required = Declared(x).required
                  /\ IsOptional(FieldAttrs(x)) = ~Declared(x).required
            /\ FieldAttrs(x).description = Declared(x).description
            /\ FieldAttrs(x).type = Declared(x).type
            /\ FieldAttrs(x).keys = Declared(x).keys

\* a unit_of_measurement declared string and required, and so wrapped, or
\* one declared list, and so a collection, has been compiled
C30_Witness ==
    \E x \in Fields :
        /\ Returned(x)
        /\ FieldName(x) = "unit_of_measurement"
        /\ Declared(x).required
        /\ Declared(x).type = Alternatives(<<"string", "list">>)
        /\ FieldAttrs(x).rustType = <<"Unit">>
        /\ FieldAttrs(x).iterable
        /\ FieldAttrs(x).useInto

----------------------------------------------------------------------------
(* Properties of loadAbbreviations and of the run, continued *)

\* a docstring line on top and another right before a later section, in a
\* source that has nothing else JSON.parse would reject
DocstringsBeforeSections(file) ==
    /\ Len(file) > 1
    /\ file[1].kind = "doc"
    /\ \E i \in 2..(Len(file) - 1) : file[i].kind = "doc" /\ file[i + 1].kind = "header"
    /\ \A i \in 1..Len(file) :
          /\ file[i].kind = "entry" => file[i].comma
          /\ file[i].kind = "close" => (i > 1 /\ file[i - 1].kind = "entry")

\* C26 as claimed: a source with a docstring line before its first section
\* and another before a later section loads, and every short name it writes
\* is the shortName of a loaded entry.
C26_DocstringsStrippedEverywhere ==
    (ABBREVIATIONS.loaded /\ DocstringsBeforeSections(abbreviationsFile)) =>
        /\ ~ABBREVIATIONS.threw
        /\ \A i \in 1..Len(SourcePairs(abbreviationsFile)) :
              \E j \in 1..Len(Items) :
                 Items[j].shortName = SourcePairs(abbreviationsFile)[i].shortName

\* C27 as claimed: the abbreviations are loaded before any entity is
\* compiled, and a file is written only once every entity is compiled and
\* the device-class and unit extractors have run.
C27_EmissionAfterExtraction ==
    /\ (entitiesModels # <<>> \/ console # <<>>) =>
          (ABBREVIATIONS.loaded /\ ~ABBREVIATIONS.threw)
    /\ written # <<>> =>
          /\ Len(entitiesModels) = Len(inputDir)
          /\ unitsModel.extracted
          /\ pc \in {"writeMod", "done"}

----------------------------------------------------------------------------
(* Properties of generateMqttEntityModel, continued *)

RetainedNames(yml) ==
    LET names == [j \in 1..Len(yml) |-> yml[j].name]
        Retained(n) == ~ArrayIncludes(IgnoredAttrsLiteral, n)
    IN  SelectSeq(names, Retained)

PropertyNames(m) == [i \in 1..Len(m.properties) |-> m.properties[i].name]

\* C29 as claimed: the fields of a model are the attributes of the table
\* outside the ignored set, each once, in source order.
C29_RetainedInSourceOrder ==
    \A e \in DOMAIN input : \A k \in 1..Len(models[e]) :
        PropertyNames(models[e][k]) = RetainedNames(input[e].yml)

\* C29, amended: the fields of a model are the attributes of the table
\* outside the ignored set, each once: first those whose name is an array
\* index, then the others in source order.
C29_RetainedInKeyOrder ==
    \A e \in DOMAIN input : \A k \in 1..Len(models[e]) :
        LET retained == RetainedNames(input[e].yml)
            IsIndex(n) == n \in IndexKeys
            IsName(n) == n \notin IndexKeys
        IN  PropertyNames(models[e][k]) =
               SelectSeq(retained, IsIndex) \o SelectSeq(retained, IsName)

\* a table that declares name and then 0 has been compiled
C29_Witness ==
    \E e \in DOMAIN input :
        /\ Len(models[e]) >= 1
        /\ Len(input[e].yml) = 2
        /\ input[e].yml[1].name = "name"
        /\ PropertyNames(models[e][1]) = <<"0", "name">>

====
